---- MODULE Spec2Model ----
(***************************************************************************)
(* pdal::plang::Invocation (plugins/python/plang/Invocation.cpp): compile  *)
(* a script, bind the point view's dimensions as numpy arrays, call the    *)
(* entry function, copy the output arrays back.                            *)
(*                                                                         *)
(* Guest objects are modelled by their reference counts.  A pointer field  *)
(* of the Invocation is a record: null, or the object it points to with    *)
(* that object's reference count rc.  rc = 0 is a deallocated object (the  *)
(* pointer dangles); rc = -1 is a deallocated object whose count has been  *)
(* written again (use after free).                                         *)
(***************************************************************************)
EXTENDS Integers, Sequences, FiniteSets, TLC

\* ------------------------------------------------------------------ bounds
\* points in the view handed to begin/end
PointCount == 2
\* execute calls between two resetArguments calls
MaxExecutes == 2
\* begin calls between two resetArguments calls
MaxStaged == 1
\* earlier begin calls whose buffers may be unfreed when begin is called
MaxUnfreed == 1
\* most parameters an entry function of the model declares
MaxParams == 3

\* ------------------------------------------------------- guest references
\* Py_INCREF / Py_DECREF on the count of an object; on a deallocated object
\* both write freed memory, which the model records as -1.
Py_INCREF(rc) == IF rc <= 0 THEN -1 ELSE rc + 1
Py_DECREF(rc) == IF rc <= 0 THEN -1 ELSE rc - 1

\* Py_XDECREF(p): nothing for a null pointer; the pointer itself is not cleared.
Py_XDECREF(p) == IF p.null THEN p ELSE [p EXCEPT !.rc = Py_DECREF(@)]

\* ------------------------------------------------------------- host types
\* Dimension::Type as (base, size); Dimension::base and Dimension::size
Types ==
    { [base |-> "Unsigned", size |-> 1], [base |-> "Signed", size |-> 1],
      [base |-> "Unsigned", size |-> 2], [base |-> "Signed", size |-> 2],
      [base |-> "Unsigned", size |-> 4], [base |-> "Signed", size |-> 4],
      [base |-> "Unsigned", size |-> 8], [base |-> "Signed", size |-> 8],
      [base |-> "Floating", size |-> 4], [base |-> "Floating", size |-> 8] }
DimensionSize(t) == t.size
DimensionBase(t) == t.base

\* numpy dtype of a host type (plang::Environment::getPythonDataType)
getPythonDataType(t) ==
    [kind |-> CASE t.base = "Signed" -> "i"
                [] t.base = "Unsigned" -> "u"
                [] OTHER -> "f",
     elsize |-> t.size]

\* the layout of the point view: its dimensions in layout order, and their types
Dims == <<"X", "Intensity">>
DimNames == {Dims[i] : i \in 1..Len(Dims)}
dimDetail(d) ==
    IF d = "X" THEN [base |-> "Floating", size |-> 8]
               ELSE [base |-> "Unsigned", size |-> 2]

\* values of one element of a dimension (its bytes)
Values == {0, 1}
Filled(n, v) == [i \in 1..n |-> v]

\* ------------------------------------------------------------ the script
\* What Py_CompileString / PyImport_ExecCodeModule / the lookup of the entry
\* function do with the script: the step compile fails at, or "ok"; and the
\* number of parameters the entry function declares.
Scripts ==
    { s \in [compiles : {"source", "load", "lookup", "callable", "ok"},
             nparams : 0..MaxParams] :
        s.compiles # "ok" => s.nparams = 0 }

\* values the entry function may return
ReturnValues == {"True", "False", "1", "'ok'"}

VARIABLES
    m_script,               \* the Script the Invocation was built for
    m_bytecode,             \* [null, rc]
    m_module,               \* "NULL" | "module"
    m_function,             \* "NULL" | "notCallable" | "function"
    m_varsIn,               \* [null, rc, items]: the inputs dict
    m_varsOut,              \* [null, rc, items]: the outputs dict
    m_scriptArgs,           \* [null, rc, items]: the argument tuple
    m_scriptResult,         \* [null, rc, value]
    m_pyInputArrays,        \* the array wrappers insertArgument made
    m_buffers,              \* the blocks begin allocated and end has not freed
    m_metadata_PyObject,    \* [null, rc, inModule]
    m_schema_PyObject,
    m_srs_PyObject,
    m_pdalargs_PyObject,
    moduleGlobals,          \* objects the module binds that no slot points to
    view,                   \* the PointView: dimension -> values per point
    alive,                  \* "live" | "destroyed" | "crashed"
    last,                   \* the last call: [op, outcome, invoked] and, per
                            \* operation, what else the call showed
    failedSinceBegin        \* an execute or end has thrown since the last begin

argVars == <<m_varsIn, m_varsOut, m_scriptArgs, m_scriptResult, m_pyInputArrays>>
codeVars == <<m_script, m_bytecode, m_module, m_function>>
auxVars == <<m_metadata_PyObject, m_schema_PyObject, m_srs_PyObject,
             m_pdalargs_PyObject, moduleGlobals>>
vars == <<m_script, m_bytecode, m_module, m_function, m_varsIn, m_varsOut,
          m_scriptArgs, m_scriptResult, m_pyInputArrays, m_buffers,
          m_metadata_PyObject, m_schema_PyObject, m_srs_PyObject,
          m_pdalargs_PyObject, moduleGlobals, view, alive, last,
          failedSinceBegin>>

\* ---------------------------------------------------------------- objects
\* the module-level names execute publishes
AuxNames == {"metadata", "schema", "spatialreference", "pdalargs"}
NullObject == [null |-> TRUE, rc |-> 0]
NullSlot == [null |-> TRUE, rc |-> 0, inModule |-> FALSE]
NullResult == [null |-> TRUE, rc |-> 0, value |-> "NULL"]
NullTuple == [null |-> TRUE, rc |-> 0, items |-> <<>>]

\* an entry of inputs: unbound, or a wrapper over a staging buffer
NoArray == [bound |-> FALSE, isArray |-> FALSE, kind |-> "-", elsize |-> 0,
            data |-> <<>>, staged |-> FALSE, freed |-> FALSE]
\* PyDict_New.  items: what the dict binds each dimension's name to; nulKeys:
\* the dimensions for whose name followed by a NUL character and more
\* characters the dict has a key ("X\0a" for "X").
PyDict_New ==
    [null |-> FALSE, rc |-> 1, items |-> [d \in DimNames |-> NoArray],
     nulKeys |-> {}]

Called(op, outcome, invoked) ==
    [op |-> op, outcome |-> outcome, invoked |-> invoked]

\* ------------------------------------------------------------ construction
\* Invocation::Invocation: every pointer NULL, then resetArguments()
Init ==
    /\ m_script \in Scripts
    /\ m_bytecode = NullObject
    /\ m_module = "NULL"
    /\ m_function = "NULL"
    /\ m_varsIn = PyDict_New
    /\ m_varsOut = PyDict_New
    /\ m_scriptArgs = NullTuple
    /\ m_scriptResult = NullResult
    /\ m_pyInputArrays = <<>>
    /\ m_buffers = <<>>
    /\ m_metadata_PyObject = NullSlot
    /\ m_schema_PyObject = NullSlot
    /\ m_srs_PyObject = NullSlot
    /\ m_pdalargs_PyObject = NullSlot
    /\ moduleGlobals = [n \in AuxNames |-> NullObject]
    /\ view = [d \in DimNames |-> Filled(PointCount, 0)]
    /\ alive = "live"
    /\ last = Called("Invocation", "ok", FALSE)
    /\ failedSinceBegin = FALSE

\* ------------------------------------------------------------------ compile
\* PyDict_GetItemString(m_dictionary, m_script.function()): what the module
\* binds the name of the entry function to
PyDict_GetItemString_function ==
    CASE m_script.compiles = "lookup" -> "NULL"
      [] m_script.compiles = "callable" -> "notCallable"
      [] OTHER -> "function"

PyCallable_Check_Skipped(o) == TRUE
PyCallable_Check(o) == o = "function"

\* Invocation::compile
Compile ==
    /\ alive = "live"
    /\ UNCHANGED <<m_script, argVars, m_buffers, auxVars, view, alive,
                   failedSinceBegin>>
    /\ IF m_script.compiles = "source"
       THEN \* Py_CompileString returned NULL, which is stored
            /\ m_bytecode' = NullObject
            /\ UNCHANGED <<m_module, m_function>>
            /\ last' = Called("compile", "CompileError", FALSE)
       ELSE \* a new code object (one reference), and Py_INCREF
            /\ m_bytecode' = [null |-> FALSE, rc |-> Py_INCREF(1)]
            /\ IF m_script.compiles = "load"
               THEN /\ m_module' = "NULL"
                    /\ UNCHANGED m_function
                    /\ last' = Called("compile", "CompileError", FALSE)
               ELSE /\ m_module' = "module"
                    /\ m_function' = PyDict_GetItemString_function
                    /\ IF PyDict_GetItemString_function = "NULL"
                       THEN last' = Called("compile", "CompileError", FALSE)
                       ELSE IF ~PyCallable_Check(PyDict_GetItemString_function)
                       THEN last' = Called("compile", "CompileError", FALSE)
                       ELSE last' = Called("compile", "ok", FALSE)

\* ------------------------------------------------------------------ cleanup
\* The tuple's deallocation releases the references its items hold.
ReleasedBy(args, what, dict) ==
    IF ~args.null /\ args.rc = 1
       /\ \E i \in 1..Len(args.items) : args.items[i] = what
    THEN [dict EXCEPT !.rc = Py_DECREF(@)]
    ELSE dict

\* Invocation::cleanup: the state of the five guest pointers and of the
\* bytecode after it.  No pointer is set to NULL.
cleanup ==
    [varsIn |-> ReleasedBy(m_scriptArgs, "inputs", Py_XDECREF(m_varsIn)),
     varsOut |-> ReleasedBy(m_scriptArgs, "outputs", Py_XDECREF(m_varsOut)),
     scriptResult |-> Py_XDECREF(m_scriptResult),
     scriptArgs |-> IF ~m_scriptArgs.null /\ m_scriptArgs.rc = 1
                    THEN [m_scriptArgs EXCEPT !.rc = 0, !.items = <<>>]
                    ELSE Py_XDECREF(m_scriptArgs),
     pyInputArrays |-> <<>>,
     bytecode |-> Py_XDECREF(m_bytecode)]

\* Invocation::resetArguments
ResetArguments ==
    /\ alive = "live"
    /\ m_varsIn' = PyDict_New
    /\ m_varsOut' = PyDict_New
    /\ m_scriptResult' = cleanup.scriptResult
    /\ m_scriptArgs' = cleanup.scriptArgs
    /\ m_pyInputArrays' = cleanup.pyInputArrays
    /\ m_bytecode' = cleanup.bytecode
    \* left: the reference counts cleanup leaves on the objects it let go of
    /\ last' = [op |-> "resetArguments", outcome |-> "ok", invoked |-> FALSE,
                left |-> [varsIn |-> cleanup.varsIn.rc,
                          varsOut |-> cleanup.varsOut.rc,
                          scriptArgs |-> cleanup.scriptArgs.rc]]
    /\ UNCHANGED <<m_script, m_module, m_function, m_buffers, auxVars, view,
                   alive, failedSinceBegin>>

\* Invocation::~Invocation
Destructor ==
    /\ alive = "live"
    /\ m_varsIn' = cleanup.varsIn
    /\ m_varsOut' = cleanup.varsOut
    /\ m_scriptResult' = cleanup.scriptResult
    /\ m_scriptArgs' = cleanup.scriptArgs
    /\ m_pyInputArrays' = cleanup.pyInputArrays
    /\ m_bytecode' = cleanup.bytecode
    /\ alive' = "destroyed"
    /\ last' = Called("~Invocation", "ok", FALSE)
    /\ UNCHANGED <<m_script, m_module, m_function, m_buffers, auxVars, view,
                   failedSinceBegin>>

\* ------------------------------------------------------------------ execute
\* argCount: the length of inspect.getargspec(function).args, or 0 ("false")
\* when the inspect module cannot be imported.
argCount(function, inspectImported) ==
    IF ~inspectImported THEN 0 ELSE m_script.nparams

\* The import of the standard inspect module succeeds in a runtime that was
\* able to start and to import numpy.
InspectImports == {TRUE}

\* execute's test on the parameter count ("Only two arguments ...")
TooManyArgs_OffByOne(numArgs) == numArgs > 3
TooManyArgs(numArgs) == numArgs > 2

\* PyModule_AddObject(m_module, name, slot's object), successful: the module's
\* dict takes a reference on the value and drops the one on the value bound
\* before, then the reference of the caller is stolen.  bound is the object
\* the name is bound to when that is not the slot's object.
PyModule_AddObject(slot, bound) ==
    IF slot.inModule
    THEN [slot |-> [slot EXCEPT !.rc = Py_DECREF(Py_DECREF(Py_INCREF(@)))],
          bound |-> bound]
    ELSE [slot |-> [slot EXCEPT !.rc = Py_DECREF(Py_INCREF(@)),
                                !.inModule = TRUE],
          bound |-> NullObject]

IncSlot(slot) == [slot EXCEPT !.rc = Py_INCREF(@)]

\* execute, the four "if (m_..._PyObject)" blocks in order.  crash: a
\* Py_INCREF of a NULL pointer.
Publish ==
    LET g == moduleGlobals
        md == IF m_metadata_PyObject.null
              THEN [slot |-> m_metadata_PyObject, bound |-> g["metadata"]]
              ELSE LET a == PyModule_AddObject(m_metadata_PyObject, g["metadata"])
                   IN  [slot |-> IncSlot(a.slot), bound |-> a.bound]
        \* the schema block increments m_srs_PyObject
        sc1 == IF m_schema_PyObject.null
               THEN [slot |-> m_schema_PyObject, bound |-> g["schema"]]
               ELSE PyModule_AddObject(m_schema_PyObject, g["schema"])
        srs1 == IF m_schema_PyObject.null THEN m_srs_PyObject
                ELSE IncSlot(m_srs_PyObject)
        \* the spatialreference block increments m_schema_PyObject
        sr2 == IF m_srs_PyObject.null
               THEN [slot |-> srs1, bound |-> g["spatialreference"]]
               ELSE PyModule_AddObject(srs1, g["spatialreference"])
        sc2 == IF m_srs_PyObject.null THEN sc1.slot ELSE IncSlot(sc1.slot)
        pa == IF m_pdalargs_PyObject.null
              THEN [slot |-> m_pdalargs_PyObject, bound |-> g["pdalargs"]]
              ELSE LET a == PyModule_AddObject(m_pdalargs_PyObject, g["pdalargs"])
                   IN  [slot |-> IncSlot(a.slot), bound |-> a.bound]
    IN  [crash |-> m_schema_PyObject.null # m_srs_PyObject.null,
         metadata |-> md.slot, schema |-> sc2, srs |-> sr2.slot,
         pdalargs |-> pa.slot,
         globals |-> [n \in AuxNames |->
                        CASE n = "metadata" -> md.bound
                          [] n = "schema" -> sc1.bound
                          [] n = "spatialreference" -> sr2.bound
                          [] OTHER -> pa.bound]]

\* The script assigns a new object to the module-level name metadata.
RebindMetadata(slot, bound) ==
    [slot |-> IF slot.inModule
              THEN [slot EXCEPT !.rc = Py_DECREF(@), !.inModule = FALSE]
              ELSE slot,
     bound |-> [null |-> FALSE, rc |-> 1]]

\* execute, after the call: m_metadata_PyObject = PyDict_GetItem(m_dictionary,
\* "metadata") when the module binds the name; a borrowed reference.
RereadMetadata(slot, bound) ==
    IF slot.inModule \/ bound.null
    THEN [slot |-> slot, bound |-> bound]
    ELSE [slot |-> [null |-> FALSE, rc |-> bound.rc, inModule |-> TRUE],
          bound |-> NullObject]

\* What the script may bind under a dimension's name in outputs.
Keep == [NoArray EXCEPT !.kind = "keep"]
\* the script binds an array under the dimension's name plus "\0" and more
NulKey == [NoArray EXCEPT !.kind = "nul"]
NewArray(kind, elsize, data) ==
    [bound |-> TRUE, isArray |-> TRUE, kind |-> kind, elsize |-> elsize,
     data |-> data, staged |-> FALSE, freed |-> FALSE]
OutChoices(d) ==
    LET dt == getPythonDataType(dimDetail(d))
    IN  {Keep,
         NewArray(dt.kind, dt.elsize, Filled(PointCount, 1)),
         NewArray(dt.kind, dt.elsize, Filled(PointCount - 1, 1)),
         NewArray(dt.kind, 4, Filled(PointCount, 1)),
         NewArray("i", dt.elsize, Filled(PointCount, 1)),
         NewArray("S", dt.elsize, Filled(PointCount, 1)),
         [NoArray EXCEPT !.bound = TRUE, !.kind = "O"],
         NulKey}
        \cup (IF m_varsIn.items[d].bound THEN {m_varsIn.items[d]} ELSE {})
KeepAll == [d \in DimNames |-> Keep]
ScriptWrites == {w \in [DimNames -> UNION {OutChoices(d) : d \in DimNames}] :
                    \A d \in DimNames : w[d] \in OutChoices(d)}

\* execute's verdict on the value the call returned (PyBool_Check, == Py_True)
ResultOutcome_Truthy(value) ==
    IF value = "False" THEN "false" ELSE "true"
ResultOutcome(value) ==
    IF value \notin {"True", "False"} THEN "NonBooleanResult"
    ELSE IF value = "True" THEN "true" ELSE "false"

\* execute reads the module's metadata back only past the two throws on the
\* result: after a call that returned a bool
RereadAfter_AnyCall(outcome) == TRUE
RereadAfter(outcome) == outcome \in {"true", "false"}

\* execute reaches PyObject_CallObject
Calls(inspectImported) ==
    /\ ~m_bytecode.null
    /\ m_function = "function"
    /\ ~TooManyArgs(argCount(m_function, inspectImported))
    /\ ~Publish.crash

\* Invocation::execute.  ret: what the entry function does ("raise" or the
\* value it returns); w, rebind: what it binds in outputs and whether it
\* rebinds metadata; surfaces: whether the runtime turns the error PyTuple_SetItem
\* left pending into a failed call.
Execute(ret, w, rebind, surfaces, inspectImported) ==
    /\ alive = "live"
    /\ m_varsIn.rc <= MaxExecutes
    \* the choices of a call that is not made, or cannot see outputs, are void
    /\ (~Calls(inspectImported) => ret = "True" /\ ~rebind)
    /\ (argCount(m_function, inspectImported) < 2 \/ ~Calls(inspectImported)
            => w = KeepAll)
    /\ (argCount(m_function, inspectImported) # 0 \/ ~Calls(inspectImported)
            => ~surfaces)
    /\ UNCHANGED <<m_script, m_bytecode, m_module, m_function, m_pyInputArrays,
                   m_buffers, view>>
    /\ IF m_bytecode.null
       THEN /\ last' = Called("execute", "NotCompiledError", FALSE)
            /\ failedSinceBegin' = TRUE
            /\ UNCHANGED <<m_varsIn, m_varsOut, m_scriptArgs, m_scriptResult,
                           auxVars, alive>>
       ELSE IF m_function # "function" \/ (~TooManyArgs(argCount(m_function, inspectImported)) /\ Publish.crash)
       THEN \* argCount on a NULL or non-function object, or Py_INCREF(NULL)
            /\ last' = Called("execute", "Crash", FALSE)
            /\ alive' = "crashed"
            /\ UNCHANGED <<m_varsIn, m_varsOut, m_scriptArgs, m_scriptResult,
                           auxVars, failedSinceBegin>>
       ELSE LET numArgs == argCount(m_function, inspectImported)
                in1 == [m_varsIn EXCEPT !.rc = Py_INCREF(@)]
            IN  IF TooManyArgs(numArgs)
                THEN /\ m_varsIn' = in1
                     /\ m_scriptArgs' = [null |-> FALSE, rc |-> 1, items |-> <<>>]
                     /\ last' = Called("execute", "ArityError", FALSE)
                     /\ failedSinceBegin' = TRUE
                     /\ UNCHANGED <<m_varsOut, m_scriptResult, auxVars, alive>>
                ELSE LET \* PyTuple_SetItem(m_scriptArgs, 0, m_varsIn) on an empty
                         \* tuple fails and releases the reference
                         in2 == IF numArgs >= 1 THEN in1
                                ELSE [in1 EXCEPT !.rc = Py_DECREF(@)]
                         out2 == IF numArgs > 1
                                 THEN [m_varsOut EXCEPT !.rc = Py_INCREF(@)]
                                 ELSE m_varsOut
                         items == IF numArgs > 1 THEN <<"inputs", "outputs">>
                                  ELSE IF numArgs = 1 THEN <<"inputs">>
                                  ELSE <<>>
                         pub == Publish
                         \* PyObject_CallObject(m_function, m_scriptArgs)
                         out3 == IF numArgs > 1
                                 THEN [out2 EXCEPT
                                        !.items =
                                          [d \in DimNames |->
                                             IF w[d] \in {Keep, NulKey}
                                             THEN @[d] ELSE w[d]],
                                        !.nulKeys =
                                          @ \cup {d \in DimNames : w[d] = NulKey}]
                                 ELSE out2
                         md3 == IF rebind
                                THEN RebindMetadata(pub.metadata, pub.globals["metadata"])
                                ELSE [slot |-> pub.metadata,
                                      bound |-> pub.globals["metadata"]]
                         failed == ret = "raise" \/ (numArgs = 0 /\ surfaces)
                         outcome == IF failed THEN "ExecutionError"
                                    ELSE ResultOutcome(ret)
                         md4 == IF RereadAfter(outcome)
                                THEN RereadMetadata(md3.slot, md3.bound)
                                ELSE md3
                     IN  /\ m_varsIn' = in2
                         /\ m_varsOut' = out3
                         /\ m_scriptArgs' = [null |-> FALSE, rc |-> 1, items |-> items]
                         /\ m_scriptResult' =
                              IF failed THEN NullResult
                              ELSE [null |-> FALSE, rc |-> 1, value |-> ret]
                         /\ m_metadata_PyObject' = md4.slot
                         /\ m_schema_PyObject' = pub.schema
                         /\ m_srs_PyObject' = pub.srs
                         /\ m_pdalargs_PyObject' = pub.pdalargs
                         /\ moduleGlobals' = [pub.globals EXCEPT !["metadata"] = md4.bound]
                         /\ last' = [op |-> "execute", outcome |-> outcome,
                                     invoked |-> TRUE, rebound |-> rebind]
                         /\ failedSinceBegin' =
                              IF outcome \in {"true", "false"}
                              THEN failedSinceBegin ELSE TRUE
                         /\ UNCHANGED alive

\* ---------------------------------------------------------------- setKWargs
\* getPyJSON: a new object (one reference) when json.loads accepts the text;
\* otherwise it throws.
getPyJSON(valid) ==
    [thrown |-> ~valid, json |-> [null |-> FALSE, rc |-> 1, inModule |-> FALSE]]

\* "m_x = <new object>" after "Py_XDECREF(m_x)": the module keeps binding the
\* object the slot pointed to, if it bound it.
Assigned(released, bound, object) ==
    [slot |-> object,
     bound |-> IF released.inModule
               THEN [null |-> FALSE, rc |-> released.rc] ELSE bound]

\* Invocation::setKWargs
SetKWargs(valid) ==
    /\ alive = "live"
    /\ LET released == Py_XDECREF(m_pdalargs_PyObject)
           parsed == getPyJSON(valid)
           a == Assigned(released, moduleGlobals["pdalargs"], parsed.json)
       IN  IF parsed.thrown
           THEN /\ m_pdalargs_PyObject' = released
                /\ UNCHANGED moduleGlobals
                /\ last' = Called("setKWargs", "JsonDecodeError", FALSE)
           ELSE /\ m_pdalargs_PyObject' = a.slot
                /\ moduleGlobals' = [moduleGlobals EXCEPT !["pdalargs"] = a.bound]
                /\ last' = Called("setKWargs", "ok", FALSE)
    /\ UNCHANGED <<codeVars, argVars, m_buffers, m_metadata_PyObject,
                   m_schema_PyObject, m_srs_PyObject, view, alive,
                   failedSinceBegin>>

\* -------------------------------------------------------------------- begin
\* insertArgument's wrapper (PyArray_New over the caller's buffer); type: the
\* host type it was made for
PyArray_New_SignedOnly(t, data) ==
    [bound |-> TRUE, isArray |-> TRUE, kind |-> "i",
     elsize |-> DimensionSize(t), data |-> data, staged |-> TRUE,
     freed |-> FALSE, type |-> t]
PyArray_New(t, data) ==
    [bound |-> TRUE, isArray |-> TRUE, kind |-> getPythonDataType(t).kind,
     elsize |-> DimensionSize(t), data |-> data, staged |-> TRUE,
     freed |-> FALSE, type |-> t]

\* Invocation::insertArgument
InsertArgument(name, t, data) ==
    /\ alive = "live"
    /\ Len(m_pyInputArrays) < MaxStaged * Len(Dims)
    /\ m_pyInputArrays' = Append(m_pyInputArrays, PyArray_New(t, data))
    /\ m_varsIn' = [m_varsIn EXCEPT !.items[name] = PyArray_New(t, data)]
    /\ last' = Called("insertArgument", "ok", FALSE)
    /\ UNCHANGED <<codeVars, m_varsOut, m_scriptArgs, m_scriptResult,
                   m_buffers, auxVars, view, alive, failedSinceBegin>>

\* Invocation::begin.  fails: the derivation that throws ("schema", "srs"), or
\* "none".
Begin(fails) ==
    /\ alive = "live"
    /\ Len(m_buffers) <= MaxUnfreed * Len(Dims)
    /\ Len(m_pyInputArrays) + Len(Dims) <= MaxStaged * Len(Dims)
    /\ m_buffers' = m_buffers \o Dims
    /\ m_pyInputArrays' =
         m_pyInputArrays \o [i \in 1..Len(Dims) |->
                               PyArray_New(dimDetail(Dims[i]), view[Dims[i]])]
    /\ m_varsIn' = [m_varsIn EXCEPT !.items =
                      [d \in DimNames |-> PyArray_New(dimDetail(d), view[d])]]
    /\ LET md == Assigned(Py_XDECREF(m_metadata_PyObject),
                          moduleGlobals["metadata"], getPyJSON(TRUE).json)
           scReleased == Py_XDECREF(m_schema_PyObject)
           sc == Assigned(scReleased, moduleGlobals["schema"],
                          getPyJSON(TRUE).json)
           srReleased == Py_XDECREF(m_srs_PyObject)
           sr == Assigned(srReleased, moduleGlobals["spatialreference"],
                          getPyJSON(TRUE).json)
       IN  /\ m_metadata_PyObject' = md.slot
           /\ m_schema_PyObject' =
                IF getPyJSON(fails # "schema").thrown THEN scReleased ELSE sc.slot
           /\ m_srs_PyObject' =
                IF fails = "schema" THEN m_srs_PyObject
                ELSE IF getPyJSON(fails # "srs").thrown THEN srReleased
                ELSE sr.slot
           /\ moduleGlobals' =
                [n \in AuxNames |->
                   CASE n = "metadata" -> md.bound
                     [] n = "schema" /\ fails # "schema" -> sc.bound
                     [] n = "spatialreference" /\ fails = "none" -> sr.bound
                     [] OTHER -> moduleGlobals[n]]
    /\ last' = Called("begin", IF fails = "none" THEN "ok" ELSE "JsonDecodeError",
                      FALSE)
    /\ failedSinceBegin' = FALSE
    /\ UNCHANGED <<codeVars, m_varsOut, m_scriptArgs, m_scriptResult,
                   m_pdalargs_PyObject, view, alive>>

\* ------------------------------------------------------------ extractResult
\* Invocation::extractResult: the error it throws, or "ok" when it returns
\* the pointer to the array's first element.
extractResult(name, t) ==
    LET xarr == m_varsOut.items[name]
    IN  IF ~xarr.bound THEN "MissingOutputError"
        ELSE IF ~xarr.isArray THEN "NotAnArrayError"
        ELSE IF xarr.elsize # DimensionSize(t) THEN "SizeMismatchError"
        ELSE IF xarr.kind = "i" /\ DimensionBase(t) # "Signed"
        THEN "KindMismatchError"
        ELSE IF xarr.kind = "u" /\ DimensionBase(t) # "Unsigned"
        THEN "KindMismatchError"
        ELSE IF xarr.kind = "f" /\ DimensionBase(t) # "Floating"
        THEN "KindMismatchError"
        ELSE "ok"

\* Invocation::getOutputNames: each key of outputs as the C string
\* PyBytes_AsString / PyString_AsString points to, which ends at the key's
\* first NUL character
getOutputNames ==
    {d \in DimNames : m_varsOut.items[d].bound} \cup m_varsOut.nulKeys

\* Invocation::hasOutputVariable: PyDict_GetItemString with the name
hasOutputVariable(name) == m_varsOut.items[name].bound

\* ---------------------------------------------------------------------- end
\* element idx of the memory extractResult pointed to: the array's element,
\* or whatever lies there when the array is shorter or its buffer was freed
InBounds(xarr, idx) == idx <= Len(xarr.data) /\ ~xarr.freed
Element(xarr, idx, garbage) ==
    IF InBounds(xarr, idx) THEN xarr.data[idx] ELSE garbage[idx]

\* end's loop over the layout from dimension i on: the view it leaves and the
\* error that stopped it ("ok": none)
RECURSIVE EndLoop(_, _, _)
EndLoop(i, v, garbage) ==
    IF i > Len(Dims) THEN [view |-> v, outcome |-> "ok"]
    ELSE LET d == Dims[i]
         IN  IF d \notin getOutputNames THEN EndLoop(i + 1, v, garbage)
             ELSE IF extractResult(d, dimDetail(d)) # "ok"
             THEN [view |-> v, outcome |-> extractResult(d, dimDetail(d))]
             ELSE EndLoop(i + 1,
                          [v EXCEPT ![d] =
                             [idx \in 1..PointCount |->
                                Element(m_varsOut.items[d], idx, garbage[d])]],
                          garbage)

\* the wrappers whose staging buffer end has freed
Freed(xarr) == IF xarr.staged THEN [xarr EXCEPT !.freed = TRUE] ELSE xarr

\* Invocation::end.  garbage: what the reads outside an array find; asserts:
\* the build keeps assert(), so that a failed assert(hasOutputVariable(name))
\* aborts the process where extractResult would have thrown.
End(garbage, asserts) ==
    /\ alive = "live"
    /\ asserts => EndLoop(1, view, garbage).outcome = "MissingOutputError"
    /\ \A d \in DimNames, idx \in 1..PointCount :
          (d \notin getOutputNames \/ extractResult(d, dimDetail(d)) # "ok"
             \/ InBounds(m_varsOut.items[d], idx)) => garbage[d][idx] = 0
    /\ LET r == EndLoop(1, view, garbage)
       IN  /\ view' = r.view
           /\ last' = Called("end", IF asserts THEN "Abort" ELSE r.outcome, FALSE)
           /\ alive' = IF asserts THEN "crashed" ELSE alive
           /\ IF r.outcome = "ok"
              THEN /\ m_buffers' = <<>>
                   /\ m_varsIn' = [m_varsIn EXCEPT !.items =
                                     [d \in DimNames |-> Freed(@[d])]]
                   /\ m_varsOut' = [m_varsOut EXCEPT !.items =
                                      [d \in DimNames |-> Freed(@[d])]]
                   /\ m_pyInputArrays' =
                        [k \in 1..Len(m_pyInputArrays) |-> Freed(m_pyInputArrays[k])]
                   /\ UNCHANGED failedSinceBegin
              ELSE /\ failedSinceBegin' = TRUE
                   /\ UNCHANGED <<m_buffers, m_varsIn, m_varsOut, m_pyInputArrays>>
    /\ UNCHANGED <<codeVars, m_scriptArgs, m_scriptResult, auxVars>>

\* the public extractResult, called on its own.  data: the elements behind
\* the pointer it returned; dangling: the buffer behind it has been freed.
ExtractResult(name, t) ==
    /\ alive = "live"
    /\ last' = [op |-> "extractResult", outcome |-> extractResult(name, t),
                invoked |-> FALSE, type |-> t,
                data |-> IF extractResult(name, t) = "ok"
                         THEN m_varsOut.items[name].data ELSE <<>>,
                dangling |-> m_varsOut.items[name].freed]
    /\ UNCHANGED <<codeVars, argVars, m_buffers, auxVars, view, alive,
                   failedSinceBegin>>

\* ------------------------------------------------------------ specification
Garbage == [DimNames -> [1..PointCount -> Values]]
NoGarbage == [d \in DimNames |-> Filled(PointCount, 0)]

\* Any order of calls on an Invocation whose script binds no output.
Next ==
    \/ Compile
    \/ ResetArguments
    \/ Destructor
    \/ \E ret \in ReturnValues \cup {"raise"}, rebind \in BOOLEAN,
          surfaces \in BOOLEAN, ii \in InspectImports :
          Execute(ret, KeepAll, rebind, surfaces, ii)
    \/ Begin("none")
    \/ \E asserts \in BOOLEAN : End(NoGarbage, asserts)

Spec == Init /\ [][Next]_vars

\* Any order of calls on an Invocation that is given keyword arguments and
\* no point view.
NextKWargs ==
    \/ Compile
    \/ ResetArguments
    \/ Destructor
    \/ \E ret \in ReturnValues \cup {"raise"}, rebind \in BOOLEAN,
          surfaces \in BOOLEAN, ii \in InspectImports :
          Execute(ret, KeepAll, rebind, surfaces, ii)
    \/ \E valid \in BOOLEAN : SetKWargs(valid)

SpecKWargs == Init /\ [][NextKWargs]_vars

\* The pipeline driver: compile once, then per unit of work resetArguments,
\* begin, execute, end; a call that throws ends the unit of work.
Threw == last.outcome \notin {"ok", "true", "false"}
InitStage == Init /\ m_script = [compiles |-> "ok", nparams |-> 2]
NextStage ==
    \/ last.op = "Invocation" /\ Compile
    \/ /\ \/ last.op \in {"compile", "end"}
          \/ last.op \in {"begin", "execute"} /\ Threw
       /\ ResetArguments
    \/ Destructor
    \/ /\ last.op = "begin" /\ ~Threw
       /\ \E ret \in ReturnValues \cup {"raise"}, w \in ScriptWrites,
             rebind \in BOOLEAN, surfaces \in BOOLEAN, ii \in InspectImports :
             Execute(ret, w, rebind, surfaces, ii)
    \/ /\ last.op = "resetArguments"
       /\ \E fails \in {"none", "schema", "srs"} : Begin(fails)
    \/ /\ last.op = "execute" /\ ~Threw
       /\ \E garbage \in Garbage, asserts \in BOOLEAN : End(garbage, asserts)

SpecStage == InitStage /\ [][NextStage]_vars

\* extractResult(name, type), for every host type, on an output array of
\* any dtype numpy has: the script binds it, the caller extracts it.
NumpyDTypes ==
    {<<"b", 1>>,
     <<"i", 1>>, <<"i", 2>>, <<"i", 4>>, <<"i", 8>>,
     <<"u", 1>>, <<"u", 2>>, <<"u", 4>>, <<"u", 8>>,
     <<"f", 2>>, <<"f", 4>>, <<"f", 8>>,
     <<"c", 8>>, <<"M", 8>>,
     <<"S", 1>>, <<"S", 2>>, <<"S", 4>>, <<"S", 8>>}
NextExtract ==
    \/ last.op = "Invocation" /\ Compile
    \/ /\ last.op = "compile"
       /\ \E dt \in NumpyDTypes :
             Execute("True",
                     [KeepAll EXCEPT !["X"] =
                        NewArray(dt[1], dt[2], Filled(PointCount, 1))],
                     FALSE, FALSE, TRUE)
    \/ /\ last.op \in {"execute", "extractResult"}
       /\ \E t \in Types : ExtractResult("X", t)

SpecExtract == InitStage /\ [][NextExtract]_vars

\* The round trip of one input array: insertArgument for any host type and
\* any values, a script that binds outputs[name] to inputs[name], and
\* extractResult.
ValueSeqs == UNION {[1..n -> Values] : n \in 0..PointCount}
NextRoundTrip ==
    \/ last.op = "Invocation" /\ Compile
    \/ /\ last.op = "compile"
       /\ \E t \in Types, data \in ValueSeqs : InsertArgument("X", t, data)
    \/ /\ last.op = "insertArgument"
       /\ Execute("True", [KeepAll EXCEPT !["X"] = m_varsIn.items["X"]],
                  FALSE, FALSE, TRUE)
    \/ /\ last.op \in {"execute", "extractResult"}
       /\ \E t \in Types : ExtractResult("X", t)

SpecRoundTrip == InitStage /\ [][NextRoundTrip]_vars

\* Any order of resetArguments, begin and execute on a compiled script, begin
\* failing or not, with or without keyword arguments set after compile; no
\* end.
NextAux ==
    \/ last.op = "Invocation" /\ Compile
    \/ last.op # "Invocation" /\ ResetArguments
    \/ Destructor
    \/ /\ last.op # "Invocation"
       /\ \E fails \in {"none", "schema", "srs"} : Begin(fails)
    \/ /\ last.op # "Invocation"
       /\ \E ret \in {"True", "1", "raise"}, rebind \in BOOLEAN :
             Execute(ret, KeepAll, rebind, FALSE, TRUE)
    \/ last.op = "compile" /\ SetKWargs(TRUE)

SpecAux == InitStage /\ [][NextAux]_vars

\* ------------------------------------------------------------------- claims
\* C1: while no compile call has succeeded (never called, or failed at the
\* source, the module load, the lookup of the entry function or the callable
\* check), execute fails with NotCompiledError and invokes no entry function.
C1_ExecuteBeforeCompiled ==
    (last.op = "execute" /\ m_function # "function")
        => (last.outcome = "NotCompiledError" /\ ~last.invoked)

\* C2: once compile has succeeded and until the Invocation is destroyed, the
\* Invocation keeps its hold on the bytecode over any number of
\* resetArguments -> begin -> execute -> end cycles: it has never released
\* the bytecode more often than it acquired it.
C2_BytecodeRetained ==
    (alive = "live" /\ m_function = "function")
        => (~m_bytecode.null /\ m_bytecode.rc >= 0)

\* C3: when execute or end has failed after begin, the buffers begin
\* allocated are released by the next resetArguments or by the destructor:
\* after either no buffer of an earlier begin is still allocated.
C3_BuffersReleased ==
    (last.op \in {"resetArguments", "~Invocation"} /\ failedSinceBegin)
        => m_buffers = <<>>

\* C4: resetArguments (cleanup) is idempotent: a second call right after a
\* first releases no reference the first released, and leaves the state of
\* the first.
C4_ResetIdempotent ==
    [][(last.op = "resetArguments" /\ last'.op = "resetArguments")
          => /\ m_varsIn' = m_varsIn
             /\ m_varsOut' = m_varsOut
             /\ m_scriptResult' = m_scriptResult
             /\ m_scriptArgs' = m_scriptArgs
             /\ m_pyInputArrays' = m_pyInputArrays
             /\ m_bytecode' = m_bytecode]_vars

\* C5: a setKWargs that fails with JsonDecodeError leaves the pdalargs slot
\* as it was: the same object, with the Invocation's reference on it.
C5_FailedSetKWargsKeepsPdalargs ==
    [][(last'.op = "setKWargs" /\ last'.outcome = "JsonDecodeError")
          => m_pdalargs_PyObject' = m_pdalargs_PyObject]_vars

\* C6: an end that fails with SizeMismatchError or KindMismatchError has
\* changed no value of the point view, not even of a dimension it processed
\* before the one that failed.
C6_FailedEndLeavesView ==
    [][(last'.op = "end"
          /\ last'.outcome \in {"SizeMismatchError", "KindMismatchError"})
          => view' = view]_vars

\* C7: extractResult returns a view only of an array whose element kind is
\* the kind of the host type's base; for an array of the type's byte size
\* and another kind it fails with KindMismatchError.
C7_KindMustAgree ==
    (last.op = "extractResult"
       /\ m_varsOut.items["X"].elsize = DimensionSize(last.type)
       /\ m_varsOut.items["X"].kind # getPythonDataType(last.type).kind)
        => last.outcome = "KindMismatchError"

C9_OneOrTwoParameters ==
    (last.op = "execute" /\ m_function = "function")
        => /\ m_script.nparams = 0
                => (last.outcome = "ArityError" /\ ~last.invoked)
           /\ m_script.nparams = 1 => m_scriptArgs.items = <<"inputs">>
           /\ m_script.nparams = 2
                => m_scriptArgs.items = <<"inputs", "outputs">>

\* C10: execute returns true exactly when the call of the entry function
\* handed back the boolean True, returns false (no error) exactly when it
\* handed back the boolean False, and fails with NonBooleanResult for every
\* other value handed back, truthy or not.
Returned(value) ==
    last.invoked /\ ~m_scriptResult.null /\ m_scriptResult.value = value
C10_ResultDecidesOutcome ==
    last.op = "execute"
        => /\ last.outcome = "true" <=> Returned("True")
           /\ last.outcome = "false" <=> Returned("False")
           /\ \A v \in ReturnValues \ {"True", "False"} :
                 Returned(v) => last.outcome = "NonBooleanResult"
C10_Witness ==
    /\ last.op = "execute" /\ last.outcome = "NonBooleanResult"
    /\ Returned("'ok'")
\* C11: after end has succeeded, every dimension whose name is bound in
\* outputs holds at each point index the element of the bound array at that
\* index, and every dimension whose name is not bound holds the values it
\* had before end.
C11_EndCopiesBoundOnly ==
    [][(last'.op = "end" /\ last'.outcome = "ok")
          => \A d \in DimNames :
                IF m_varsOut.items[d].bound
                THEN view'[d] = m_varsOut.items[d].data
                ELSE view'[d] = view[d]]_vars

\* C12: an array inserted with insertArgument for a host type T and bound
\* unchanged to the same name in outputs is accepted by extractResult(name, T),
\* and the elements behind the pointer returned are the inserted ones.
C12_RoundTrip ==
    (last.op = "extractResult"
       /\ m_varsOut.items["X"].staged
       /\ m_varsOut.items["X"] = m_varsIn.items["X"]
       /\ last.type = m_varsIn.items["X"].type)
        => /\ last.outcome = "ok"
           /\ ~last.dangling
           /\ last.data = m_pyInputArrays[Len(m_pyInputArrays)].data
C12_Witness ==
    /\ last.op = "extractResult" /\ last.outcome = "ok"
    /\ m_varsOut.items["X"].staged
    /\ last.type = [base |-> "Unsigned", size |-> 8]
    /\ last.data = <<1, 0>>

\* C13: compile succeeds only when the source compiles, the module loads,
\* the module binds the name of the entry function and the object bound is
\* callable, and then the function is resolved; in each of the four other
\* cases, a missing entry function among them, it fails with an error.
C13_CompileChecks ==
    last.op = "compile"
        => /\ last.outcome = "ok"
                <=> (m_script.compiles = "ok" /\ m_function = "function"
                       /\ m_module = "module" /\ ~m_bytecode.null)
           /\ m_script.compiles \in {"source", "load", "lookup", "callable"}
                => last.outcome = "CompileError"
C13_Witness ==
    /\ last.op = "compile" /\ last.outcome = "CompileError"
    /\ m_script.compiles = "lookup"

\* C14: whatever execute calls were made since the resetArguments before
\* (none, one or several; succeeding or failing), a resetArguments leaves no
\* reference of the Invocation on the inputs mapping, the outputs mapping
\* and the argument tuple it lets go of, and has released none of them more
\* often than acquired: the count of each is zero after it.
C14_ArgumentsBalanced ==
    last.op = "resetArguments"
        => /\ last.left.varsIn = 0
           /\ last.left.varsOut = 0
           /\ last.left.scriptArgs = 0

\* C15: each of the four slots (metadata, schema, spatialreference,
\* pdalargs) is NULL or points to a live object on which the Invocation
\* holds a reference of its own, besides the one the module holds when it
\* binds the object.
Owned(slot) ==
    slot.null \/ slot.rc - (IF slot.inModule THEN 1 ELSE 0) >= 1
C15_SlotsOwned ==
    alive = "live"
        => /\ Owned(m_metadata_PyObject)
           /\ Owned(m_schema_PyObject)
           /\ Owned(m_srs_PyObject)
           /\ Owned(m_pdalargs_PyObject)

\* C16: execute on a compiled script touches only the slots that are set: in
\* no state, one with schema set and spatialreference unset or the reverse
\* included, does it increment or dereference an unset slot.
C16_UnsetSlotsUntouched ==
    (last.op = "execute" /\ m_function = "function")
        => last.outcome # "Crash"

\* C17: when execute invokes the entry function, the test for compiled code
\* and the test on the parameter count have passed and every slot that was
\* set is bound at module level (for metadata: unless the script has bound
\* the name to something else since); and a call that raised or returned a
\* non-boolean is not followed by the read of the module's metadata into
\* the slot: the slot is set only if it was, and what the script bound stays
\* the module's alone.
C17_ExecuteOrder ==
    [][(last'.op = "execute" /\ last'.invoked)
          => /\ ~m_bytecode.null
             /\ m_function = "function"
             /\ ~TooManyArgs(m_script.nparams)
             /\ ~m_schema_PyObject.null => m_schema_PyObject'.inModule
             /\ ~m_srs_PyObject.null => m_srs_PyObject'.inModule
             /\ ~m_pdalargs_PyObject.null => m_pdalargs_PyObject'.inModule
             /\ ~m_metadata_PyObject.null
                  => (m_metadata_PyObject'.inModule \/ last'.rebound)
             /\ last'.outcome \notin {"true", "false"}
                  => /\ m_metadata_PyObject'.null = m_metadata_PyObject.null
                     /\ last'.rebound
                          => /\ ~m_metadata_PyObject'.inModule
                             /\ ~moduleGlobals'["metadata"].null]_vars
C17_Witness ==
    /\ last.op = "execute" /\ last.invoked /\ last.rebound
    /\ last.outcome = "NonBooleanResult"
    /\ ~m_metadata_PyObject.null /\ ~m_metadata_PyObject.inModule
    /\ ~m_schema_PyObject.null /\ m_schema_PyObject.inModule

\* C18: every name getOutputNames returns is bound in outputs
\* (hasOutputVariable holds of it), so that neither assertion of end fails
\* and end never fails with MissingOutputError.
C18_OutputNamesBound ==
    /\ \A name \in getOutputNames : hasOutputVariable(name)
    /\ last.op = "end" => last.outcome \notin {"MissingOutputError", "Abort"}

\* C19: end reads no element past the end of an output array: when it has
\* copied every bound dimension back (it ended without error), each bound
\* array holds at least the view's point count of elements.
C19_EndReadsInsideArrays ==
    (last.op = "end" /\ last.outcome = "ok")
        => \A d \in DimNames :
              m_varsOut.items[d].bound
                 => Len(m_varsOut.items[d].data) >= PointCount

\* C20: every input array wrapper the guest runtime can reach, bound in
\* inputs or held in m_pyInputArrays, is backed by a buffer that has not
\* been freed.
C20_WrappersBacked ==
    alive = "live"
        => /\ \A d \in DimNames : ~m_varsIn.items[d].freed
           /\ \A k \in 1..Len(m_pyInputArrays) : ~m_pyInputArrays[k].freed
====
